---- MODULE Spec2Model ----
(***************************************************************************)
(* The processing-task orchestration of arkstudy: material-service's       *)
(* ProcessMaterial / UpdateProcessingResult and its task store, the poll   *)
(* loop of the direct route (callAIService / handleOCR), the ocr-service   *)
(* worker (ProcessOCR / GetTaskStatus / runOCRTask) and the ocr-service    *)
(* queue consumer (startConsumer).                                         *)
(*                                                                         *)
(* A task identifier (uuid.New) is modelled by the row's position in the   *)
(* creation order.  Time is counted in seconds since a poll loop computed  *)
(* its deadline; outbound calls are taken to be instantaneous.             *)
(***************************************************************************)
EXTENDS Naturals, Sequences, FiniteSets

VARIABLES
    tasks,        \* processing_results table, in creation order
    procs,        \* per task: the ProcessMaterial handler / callAIService goroutine that owns it
    queue,        \* uncommitted job messages of the topic kafkaWriter publishes to,
                  \* configured to be the topic the ocr-service consumer reads
    consumer,     \* the ocr-service consumer loop (startConsumer)
    statusStore,  \* OCRService.statusStore
    ocrStore,     \* OCRService.ocrStore
    jobs,         \* live runOCRTask goroutines, per task id and position
    calls,        \* ProcessOCR handlers of the worker's gRPC clients, in flight
    extracted,    \* messages the consumer published to the text.extracted topic
    chunkText,    \* the argument of a splitTextToChunks call
    chunkOut,     \* the value the call returned
    upserts,      \* the UpsertChunks requests sent for the chunks of chunkOut
    kafkaWriter,              \* MaterialServiceImpl.kafkaWriter != nil
    textExtractedKafkaWriter, \* MaterialServiceImpl.textExtractedKafkaWriter != nil
    lastReply     \* the last value ProcessMaterial returned to a caller

vars == <<tasks, procs, queue, consumer, statusStore, ocrStore, jobs, calls,
          extracted, chunkText, chunkOut,
          upserts, kafkaWriter, textExtractedKafkaWriter, lastReply>>

----------------------------------------------------------------------------
(* Bounds of the model *)

MaxTasks == 2

MaxPolls == 1

MaxCallers == 2

MaxJobs == 2

MaxLines == 3

MaxRedeliveries == 1

MaxUploads == 1

(* Program constants *)

PollIntervalSeconds == 2

DeadlineSeconds == 600

MaxLen == 500

----------------------------------------------------------------------------
(* models/processing_result.go *)

ProcessingTypeOCR == "OCR"

ProcessingTypeASR == "ASR"

ProcessingStatusPending == "pending"

ProcessingStatusProcessing == "processing"

ProcessingStatusCompleted == "completed"

ProcessingStatusFailed == "failed"

ProcessTypes == {ProcessingTypeOCR, ProcessingTypeASR}

(* convertProcessingStatus: the statuses a request can carry; any other    *)
(* enum value converts to the empty string.                                *)
ProcessingStatuses ==
    {ProcessingStatusPending, ProcessingStatusProcessing,
     ProcessingStatusCompleted, ProcessingStatusFailed}

(* The materials table: one material, owned by uA.  Requests may name a    *)
(* material that does not exist and a user who is not the owner.           *)
Materials == [m \in {"m1"} |-> [UserID |-> "uA", FileType |-> "image"]]

MaterialIDs == {"m1", "m0"}

UserIDs == {"uA", "uB"}

(* Text payloads the OCR engine may produce: none, blank, some text. *)
OCRTexts == {"", " ", "recognized text"}

(* A metadata argument of nil, and a row whose metadata column was never set. *)
NilMetadata == "nil"

TaskIDs == 1..MaxTasks

(* The task ids sendOcrRequestMessage draws with uuid.New: identifiers     *)
(* that are no row of the task store.                                      *)
UploadTaskIDs == (MaxTasks + 1)..(MaxTasks + MaxUploads)

(* The task ids the worker may be asked about. *)
WorkerTaskIDs == TaskIDs \cup UploadTaskIDs

(* detectFileType: the file types UploadFile hands to sendOcrRequestMessage. *)
OcrFileTypes == {"pdf", "document", "image"}

----------------------------------------------------------------------------
(* Task store: ProcessingResultRepositoryImpl *)

(* BaseRepositoryImpl.Create of the row ProcessMaterial builds: the columns *)
(* it does not set take their zero values.                                  *)
NewRow(materialID, processType) ==
    [material_id |-> materialID, type |-> processType,
     status |-> ProcessingStatusPending, content |-> "",
     metadata |-> NilMetadata, error_message |-> ""]

(* A variant of the query that orders by created_at ASC: the oldest row   *)
(* of the pair.                                                            *)
GetOldestByMaterialIDAndType(store, materialID, processType) ==
    LET matching == {i \in DOMAIN store :
                        /\ store[i].material_id = materialID
                        /\ store[i].type = processType}
    IN  IF matching = {} THEN 0
        ELSE CHOOSE i \in matching : \A j \in matching : i <= j

(* WHERE material_id = ? AND type = ? ORDER BY created_at DESC, First:     *)
(* the task id of the most recently created row of the pair, 0 when there  *)
(* is none (gorm.ErrRecordNotFound).                                       *)
GetByMaterialIDAndType(store, materialID, processType) ==
    LET matching == {i \in DOMAIN store :
                        /\ store[i].material_id = materialID
                        /\ store[i].type = processType}
    IN  IF matching = {} THEN 0
        ELSE CHOOSE i \in matching : \A j \in matching : j <= i

(* A variant of the update without the WHERE clause: the columns named in  *)
(* the map are overwritten on every row when the task id matches a row.    *)
UpdateEveryRow(store, taskID, updates) ==
    [i \in DOMAIN store |->
        IF taskID \in DOMAIN store
        THEN [col \in DOMAIN store[i] |->
                IF col \in DOMAIN updates THEN updates[col] ELSE store[i][col]]
        ELSE store[i]]

(* UPDATE processing_results SET <updates> WHERE task_id = ?: the columns  *)
(* named in the map are overwritten on the matching row, whatever its      *)
(* current status; no matching row is no error.                            *)
UpdateByTaskID(store, taskID, updates) ==
    [i \in DOMAIN store |->
        IF i = taskID
        THEN [col \in DOMAIN store[i] |->
                IF col \in DOMAIN updates THEN updates[col] ELSE store[i][col]]
        ELSE store[i]]

(* A variant of UpdateProcessingResult that accumulates: the content of   *)
(* the request is appended to the stored content instead of replacing it. *)
UpdateProcessingResultAppends(store, taskID, status, content, metadata, errorMessage) ==
    LET old == IF taskID \in DOMAIN store THEN store[taskID].content ELSE ""
    IN  UpdateByTaskID(store, taskID,
                       [col \in {"status", "content"} |->
                           IF col = "status" THEN status ELSE old \o content])

(* MaterialServiceImpl.UpdateProcessingResult: status and content are      *)
(* always written, metadata only when not nil, error_message only when     *)
(* not empty.                                                              *)
UpdateProcessingResult(store, taskID, status, content, metadata, errorMessage) ==
    LET cols == {"status", "content"}
                  \cup (IF metadata # NilMetadata THEN {"metadata"} ELSE {})
                  \cup (IF errorMessage # "" THEN {"error_message"} ELSE {})
        updates == [col \in cols |->
                      CASE col = "status"   -> status
                        [] col = "content"  -> content
                        [] col = "metadata" -> metadata
                        [] OTHER            -> errorMessage]
    IN  UpdateByTaskID(store, taskID, updates)

(* MaterialRPCServer.UpdateProcessingResult: the callback entry point.     *)
(* taskID 0 stands for the empty string; convertMetadata turns the request *)
(* map into a non-nil map, so the metadata column is always written.       *)
UpdateProcessingResultRPC(store, taskID, status, content, metadata, errorMessage) ==
    IF taskID = 0
    THEN [Success |-> FALSE, Message |-> "task_id is required", store |-> store]
    ELSE IF status \notin ProcessingStatuses
    THEN [Success |-> FALSE, Message |-> "unsupported status", store |-> store]
    ELSE [Success |-> TRUE, Message |-> "Processing result updated successfully",
          store |-> UpdateProcessingResult(store, taskID, status, content,
                                           metadata, errorMessage)]

----------------------------------------------------------------------------
(* ocr-service worker: OCRService *)

NoTask == [Status |-> "ABSENT", ErrorMessage |-> ""]

NoResult == [present |-> FALSE, Text |-> ""]

(* The runOCRTask goroutines of one task id: how many are before the       *)
(* statement t.Status = COMPLETED, how many between it and the ocrStore    *)
(* write.                                                                  *)
NoJobs == [running |-> 0, store |-> 0]

LiveJobs(j) == j.running + j.store

(* OCRService.getTask: an unknown task id is registered as QUEUED. *)
getTask(store, taskID) ==
    IF store[taskID].Status = "ABSENT"
    THEN [store EXCEPT ![taskID] = [Status |-> "QUEUED", ErrorMessage |-> ""]]
    ELSE store

(* A variant of ProcessOCR without the test of the file URL: a QUEUED or   *)
(* FAILED task is started by every call that finds no cached result.       *)
ProcessOCRAlwaysStarts(taskID, hasFileUrl) ==
    LET registered == getTask(statusStore, taskID)
        t == registered[taskID]
        starts == t.Status \in {"QUEUED", "FAILED"}
    IN  IF ocrStore[taskID].present
        THEN [statusStore |-> statusStore, jobs |-> jobs,
              Status |-> "COMPLETED", Text |-> ocrStore[taskID].Text]
        ELSE IF starts
        THEN [statusStore |-> [registered EXCEPT ![taskID].Status = "PROCESSING"],
              jobs |-> [jobs EXCEPT ![taskID].running = @ + 1],
              Status |-> "PROCESSING", Text |-> ""]
        ELSE [statusStore |-> registered, jobs |-> jobs,
              Status |-> t.Status, Text |-> ""]

(* OCRService.ProcessOCR: a cached result is returned as it is; without a  *)
(* file URL the current status is returned and nothing starts; with one,   *)
(* a QUEUED or FAILED task becomes PROCESSING and runOCRTask is started.   *)
(* The value is the service's state after the call and the response.       *)
ProcessOCR(taskID, hasFileUrl) ==
    LET registered == getTask(statusStore, taskID)
        t == registered[taskID]
        starts == t.Status \in {"QUEUED", "FAILED"}
    IN  IF ocrStore[taskID].present
        THEN [statusStore |-> statusStore, jobs |-> jobs,
              Status |-> "COMPLETED", Text |-> ocrStore[taskID].Text]
        ELSE IF ~hasFileUrl
        THEN [statusStore |-> registered, jobs |-> jobs,
              Status |-> t.Status, Text |-> ""]
        ELSE IF starts
        THEN [statusStore |-> [registered EXCEPT ![taskID].Status = "PROCESSING"],
              jobs |-> [jobs EXCEPT ![taskID].running = @ + 1],
              Status |-> "PROCESSING", Text |-> ""]
        ELSE [statusStore |-> registered, jobs |-> jobs,
              Status |-> t.Status, Text |-> ""]

(* runOCRTask up to t.Status = COMPLETED: fetchFile and callPaddleOCR,    *)
(* either of which may fail the worker task with its error message.        *)
RunOCRTask(taskID) ==
    /\ jobs[taskID].running > 0
    /\ \/ /\ \E e \in {"download error: err", "paddleocr error: err"} :
                statusStore' = [statusStore EXCEPT ![taskID] =
                                   [Status |-> "FAILED", ErrorMessage |-> e]]
          /\ jobs' = [jobs EXCEPT ![taskID].running = @ - 1]
       \/ /\ statusStore' = [statusStore EXCEPT ![taskID].Status = "COMPLETED"]
          /\ jobs' = [jobs EXCEPT ![taskID].running = @ - 1,
                                  ![taskID].store = @ + 1]
    /\ UNCHANGED <<tasks, procs, queue, consumer, ocrStore,
                   calls, extracted, chunkText, chunkOut,
                   upserts, kafkaWriter, textExtractedKafkaWriter, lastReply>>

(* runOCRTask, last statement: the recognized text is cached, after the    *)
(* status was set.                                                         *)
RunOCRStore(taskID) ==
    /\ jobs[taskID].store > 0
    /\ \E txt \in OCRTexts :
          ocrStore' = [ocrStore EXCEPT ![taskID] = [present |-> TRUE, Text |-> txt]]
    /\ jobs' = [jobs EXCEPT ![taskID].store = @ - 1]
    /\ UNCHANGED <<tasks, procs, queue, consumer, statusStore,
                   calls, extracted, chunkText, chunkOut,
                   upserts, kafkaWriter, textExtractedKafkaWriter, lastReply>>

----------------------------------------------------------------------------
(* ocr-service: gRPC clients of the worker.  The handlers run in their own *)
(* goroutines and OCRService holds no lock, so the status test of          *)
(* ProcessOCR and the statements after it are two steps.                   *)

Callers == 1..MaxCallers

IdleCall == [pc |-> "idle", task_id |-> 0]

(* ProcessOCR up to the test t.Status == QUEUED || t.Status == FAILED: a   *)
(* cached result, a request without file URL or a task already running     *)
(* returns; otherwise the handler goes on to start the job.                *)
ProcessOCRCheck(c, taskID, hasFileUrl) ==
    /\ calls[c].pc = "idle"
    /\ IF ocrStore[taskID].present
       THEN UNCHANGED <<statusStore, calls>>
       ELSE /\ statusStore' = getTask(statusStore, taskID)
            /\ IF /\ hasFileUrl
                  /\ getTask(statusStore, taskID)[taskID].Status \in {"QUEUED", "FAILED"}
               THEN calls' = [calls EXCEPT ![c] = [pc |-> "start", task_id |-> taskID]]
               ELSE UNCHANGED calls
    /\ UNCHANGED <<tasks, procs, queue, consumer, ocrStore, jobs,
                   upserts, kafkaWriter, textExtractedKafkaWriter, lastReply,
                   extracted, chunkText, chunkOut>>

(* ProcessOCR after the test: t.Status = PROCESSING, go s.runOCRTask. *)
ProcessOCRStart(c) ==
    /\ calls[c].pc = "start"
    /\ LiveJobs(jobs[calls[c].task_id]) < MaxJobs
    /\ statusStore' = [statusStore EXCEPT ![calls[c].task_id].Status = "PROCESSING"]
    /\ jobs' = [jobs EXCEPT ![calls[c].task_id].running = @ + 1]
    /\ calls' = [calls EXCEPT ![c] = IdleCall]
    /\ UNCHANGED <<tasks, procs, queue, consumer, ocrStore,
                   upserts, kafkaWriter, textExtractedKafkaWriter, lastReply,
                   extracted, chunkText, chunkOut>>

(* GetTaskStatus called by a client. *)
GetTaskStatus(taskID) ==
    /\ statusStore' = getTask(statusStore, taskID)
    /\ UNCHANGED <<tasks, procs, queue, consumer, ocrStore, jobs, calls,
                   upserts, kafkaWriter, textExtractedKafkaWriter, lastReply,
                   extracted, chunkText, chunkOut>>

----------------------------------------------------------------------------
(* material-service: ProcessMaterial and the queue route *)

NoReply ==
    [Success |-> FALSE, Message |-> "", TaskId |-> 0,
     Status |-> "", Content |-> "", ErrorMessage |-> ""]

(* MaterialRPCServer.ProcessMaterial, err != nil: Success false, err.Error(). *)
ErrorReply(message) ==
    [Success |-> FALSE, Message |-> message, TaskId |-> 0,
     Status |-> "", Content |-> "", ErrorMessage |-> ""]

(* MaterialRPCServer.ProcessMaterial, err == nil: the returned              *)
(* *models.ProcessingResult through convertToProtoProcessingResult.         *)
ResultReply(taskID, result) ==
    [Success |-> TRUE, Message |-> "Processing started successfully",
     TaskId |-> taskID, Status |-> result.status, Content |-> result.content,
     ErrorMessage |-> result.error_message]

(* The route test of ProcessMaterial: OCR and a text-extracted writer. *)
QueueRoute(processType) ==
    processType = ProcessingTypeOCR /\ textExtractedKafkaWriter

(* The local variable `result` of ProcessMaterial: the struct handed to    *)
(* Create.  The later UpdateProcessingResult calls write the table, never  *)
(* this struct, and it is what the handler returns.                        *)
LocalResult(taskID) ==
    NewRow(tasks[taskID].material_id, tasks[taskID].type)

Proc(pc) == [pc |-> pc, elapsed |-> 0, finalText |-> "", ingested |-> FALSE]

(* A variant of the decision without the ownership test of step 1. *)
ProcessMaterialDecisionAnyUser(store, materialID, userID, processType) ==
    LET existing == GetByMaterialIDAndType(store, materialID, processType)
    IN  IF materialID \notin DOMAIN Materials
        THEN [kind |-> "error", task_id |-> 0,
              message |-> "material not found: record not found"]
        ELSE IF existing # 0 /\ store[existing].status = ProcessingStatusCompleted
        THEN [kind |-> "existing", task_id |-> existing, message |-> ""]
        ELSE [kind |-> "create", task_id |-> Len(store) + 1, message |-> ""]

(* ProcessMaterial, steps 1 and 2: what the call does with the store as it *)
(* finds it.  An error return, the existing completed row of the pair, or  *)
(* the creation of a new row.                                              *)
ProcessMaterialDecision(store, materialID, userID, processType) ==
    LET existing == GetByMaterialIDAndType(store, materialID, processType)
    IN  IF materialID \notin DOMAIN Materials
        THEN [kind |-> "error", task_id |-> 0,
              message |-> "material not found: record not found"]
        ELSE IF Materials[materialID].UserID # userID
        THEN [kind |-> "error", task_id |-> 0,
              message |-> "permission denied: material does not belong to user"]
        ELSE IF existing # 0 /\ store[existing].status = ProcessingStatusCompleted
        THEN [kind |-> "existing", task_id |-> existing, message |-> ""]
        ELSE [kind |-> "create", task_id |-> Len(store) + 1, message |-> ""]

(* A variant of ProcessMaterial that retries in place: when the pair has   *)
(* a task that is not completed, its row is reset and reused instead of a  *)
(* new row being created.                                                  *)
ProcessMaterialRetriesInPlace(materialID, userID, processType) ==
    LET d == ProcessMaterialDecision(tasks, materialID, userID, processType)
        existing == GetByMaterialIDAndType(tasks, materialID, processType)
    IN  CASE d.kind = "error" ->
               /\ lastReply' = ErrorReply(d.message)
               /\ UNCHANGED <<tasks, procs>>
          [] d.kind = "existing" ->
               /\ lastReply' = ResultReply(d.task_id, tasks[d.task_id])
               /\ UNCHANGED <<tasks, procs>>
          [] d.kind = "create" /\ existing # 0 ->
               /\ tasks' = [tasks EXCEPT ![existing] = NewRow(materialID, processType)]
               /\ procs' = [procs EXCEPT ![existing] =
                                Proc(IF QueueRoute(processType)
                                     THEN "dispatch" ELSE "spawned")]
               /\ lastReply' = ResultReply(existing, NewRow(materialID, processType))
          [] OTHER ->
               /\ Len(tasks) < MaxTasks
               /\ tasks' = Append(tasks, NewRow(materialID, processType))
               /\ IF QueueRoute(processType)
                  THEN /\ procs' = Append(procs, Proc("dispatch"))
                       /\ UNCHANGED lastReply
                  ELSE /\ procs' = Append(procs, Proc("spawned"))
                       /\ lastReply' = ResultReply(d.task_id,
                                                   NewRow(materialID, processType))

(* ProcessMaterial up to the creation of the row (steps 1 to 4), and for   *)
(* the direct route up to its return (go s.callAIService).                 *)
ProcessMaterial(materialID, userID, processType) ==
    LET d == ProcessMaterialDecision(tasks, materialID, userID, processType)
    IN  CASE d.kind = "error" ->
               /\ lastReply' = ErrorReply(d.message)
               /\ UNCHANGED <<tasks, procs>>
          [] d.kind = "existing" ->
               /\ lastReply' = ResultReply(d.task_id, tasks[d.task_id])
               /\ UNCHANGED <<tasks, procs>>
          [] OTHER ->
               /\ Len(tasks) < MaxTasks
               /\ tasks' = Append(tasks, NewRow(materialID, processType))
               /\ IF QueueRoute(processType)
                  THEN /\ procs' = Append(procs, Proc("dispatch"))
                       /\ UNCHANGED lastReply
                  ELSE /\ procs' = Append(procs, Proc("spawned"))
                       /\ lastReply' = ResultReply(d.task_id,
                                                   NewRow(materialID, processType))

ProcessMaterialCall(materialID, userID, processType) ==
    /\ ProcessMaterial(materialID, userID, processType)
    /\ UNCHANGED <<queue, consumer, statusStore, ocrStore, jobs,
                   calls, extracted, chunkText, chunkOut,
                   upserts, kafkaWriter, textExtractedKafkaWriter>>

(* ocrJob: the message ProcessMaterial publishes, with the presigned URL   *)
(* GetFileURL returned and the material's file type.                       *)
Job(taskID) ==
    [task_id |-> taskID, material_id |-> tasks[taskID].material_id,
     user_id |-> Materials[tasks[taskID].material_id].UserID,
     file_url |-> "presigned url",
     file_type |-> Materials[tasks[taskID].material_id].FileType]

(* A variant of Dispatch that goes on to mark the task although            *)
(* WriteMessages returned an error.                                        *)
DispatchIgnoresPublishError(taskID) ==
    /\ taskID \in DOMAIN procs
    /\ procs[taskID].pc = "dispatch"
    /\ \/ /\ tasks' = UpdateProcessingResult(tasks, taskID, ProcessingStatusFailed,
                                              "", NilMetadata, "presign: err")
          /\ procs' = [procs EXCEPT ![taskID].pc = "failed"]
          /\ lastReply' = ResultReply(taskID, LocalResult(taskID))
          /\ UNCHANGED queue
       \/ /\ ~kafkaWriter
          /\ procs' = [procs EXCEPT ![taskID].pc = "panic"]
          /\ UNCHANGED <<tasks, queue, lastReply>>
       \/ /\ kafkaWriter
          /\ procs' = [procs EXCEPT ![taskID].pc = "mark"]
          /\ UNCHANGED <<tasks, queue, lastReply>>
       \/ /\ kafkaWriter
          /\ queue' = Append(queue, Job(taskID))
          /\ procs' = [procs EXCEPT ![taskID].pc = "mark"]
          /\ UNCHANGED <<tasks, lastReply>>
    /\ UNCHANGED <<consumer, statusStore, ocrStore, jobs,
                   calls, extracted, chunkText, chunkOut,
                   upserts, kafkaWriter, textExtractedKafkaWriter>>

(* ProcessMaterial, step 5 of the queue route: GetFileURL, json.Marshal,   *)
(* kafkaWriter.WriteMessages.  A failure marks the task failed and returns *)
(* `result`; a nil kafkaWriter panics in WriteMessages.                    *)
Dispatch(taskID) ==
    /\ taskID \in DOMAIN procs
    /\ procs[taskID].pc = "dispatch"
    /\ \/ /\ tasks' = UpdateProcessingResult(tasks, taskID, ProcessingStatusFailed,
                                              "", NilMetadata, "presign: err")
          /\ procs' = [procs EXCEPT ![taskID].pc = "failed"]
          /\ lastReply' = ResultReply(taskID, LocalResult(taskID))
          /\ UNCHANGED queue
       \/ /\ ~kafkaWriter
          /\ procs' = [procs EXCEPT ![taskID].pc = "panic"]
          /\ UNCHANGED <<tasks, queue, lastReply>>
       \/ /\ kafkaWriter
          /\ tasks' = UpdateProcessingResult(tasks, taskID, ProcessingStatusFailed,
                                              "", NilMetadata, "kafka publish: err")
          /\ procs' = [procs EXCEPT ![taskID].pc = "failed"]
          /\ lastReply' = ResultReply(taskID, LocalResult(taskID))
          /\ UNCHANGED queue
       \/ /\ kafkaWriter
          /\ queue' = Append(queue, Job(taskID))
          /\ procs' = [procs EXCEPT ![taskID].pc = "mark"]
          /\ UNCHANGED <<tasks, lastReply>>
    /\ UNCHANGED <<consumer, statusStore, ocrStore, jobs,
                   calls, extracted, chunkText, chunkOut,
                   upserts, kafkaWriter, textExtractedKafkaWriter>>

(* A variant of MarkDispatched without the return that ends the queue     *)
(* branch: the handler falls through to go s.callAIService.                *)
MarkDispatchedFallsThrough(taskID) ==
    /\ taskID \in DOMAIN procs
    /\ procs[taskID].pc = "mark"
    /\ tasks' = UpdateProcessingResult(tasks, taskID, ProcessingStatusProcessing,
                                        "", "{dispatched:true}", "")
    /\ procs' = [procs EXCEPT ![taskID].pc = "spawned"]
    /\ lastReply' = ResultReply(taskID, LocalResult(taskID))
    /\ UNCHANGED <<queue, consumer, statusStore, ocrStore, jobs,
                   calls, extracted, chunkText, chunkOut,
                   upserts, kafkaWriter, textExtractedKafkaWriter>>

(* ProcessMaterial, after a successful publish: status processing with     *)
(* metadata {dispatched: true}, and the return of `result`.                *)
MarkDispatched(taskID) ==
    /\ taskID \in DOMAIN procs
    /\ procs[taskID].pc = "mark"
    /\ tasks' = UpdateProcessingResult(tasks, taskID, ProcessingStatusProcessing,
                                        "", "{dispatched:true}", "")
    /\ procs' = [procs EXCEPT ![taskID].pc = "returned"]
    /\ lastReply' = ResultReply(taskID, LocalResult(taskID))
    /\ UNCHANGED <<queue, consumer, statusStore, ocrStore, jobs,
                   calls, extracted, chunkText, chunkOut,
                   upserts, kafkaWriter, textExtractedKafkaWriter>>

(* The message sendOcrRequestMessage builds for an uploaded material: a    *)
(* new task id, the material's object path as file_url.                    *)
UploadJob(taskID, userID, fileType) ==
    [task_id |-> taskID, material_id |-> "m2", user_id |-> userID,
     file_url |-> "materials/bucket/object", file_type |-> fileType]

(* UploadFile of a pdf, a document or an image by a user, after the       *)
(* material m2 is stored: sendOcrRequestMessage publishes an OCR request   *)
(* with kafkaWriter.  Without a writer, or when the write fails, the error *)
(* is logged, nothing is published and the upload succeeds all the same.   *)
UploadFile(userID, fileType) ==
    /\ kafkaWriter
    /\ \E id \in UploadTaskIDs :
          /\ statusStore[id].Status = "ABSENT"
          /\ \A i \in DOMAIN queue : queue[i].task_id # id
          /\ queue' = Append(queue, UploadJob(id, userID, fileType))
    /\ UNCHANGED <<tasks, procs, consumer, statusStore, ocrStore, jobs,
                   calls, extracted, chunkText, chunkOut,
                   upserts, kafkaWriter, textExtractedKafkaWriter, lastReply>>

----------------------------------------------------------------------------
(* material-service: the direct route (callAIService, handleOCR) *)

(* time.Sleep(2 * time.Second) between two polls: the seconds elapsed      *)
(* after it.  Besides one interval, the run of intervals up to the first   *)
(* poll instant at or after the deadline is taken in one step; it stands   *)
(* for the polls in between having brought nothing new.                    *)
AfterSleep(elapsed) ==
    LET rest == DeadlineSeconds - elapsed
        k == (rest + PollIntervalSeconds - 1) \div PollIntervalSeconds
    IN  (IF elapsed < MaxPolls * PollIntervalSeconds
         THEN {elapsed + PollIntervalSeconds} ELSE {})
        \cup (IF elapsed < DeadlineSeconds
              THEN {elapsed + k * PollIntervalSeconds} ELSE {})

(* splitTextToChunks(text) returns no chunk: the trimmed text is empty. *)
NoChunks(text) == text \in {"", " "}

Finish(taskID, pc, status, content, metadata, errorMessage) ==
    /\ tasks' = UpdateProcessingResult(tasks, taskID, status, content,
                                        metadata, errorMessage)
    /\ procs' = [procs EXCEPT ![taskID].pc = pc]

(* callAIService, first statement: status processing. *)
CallAIServiceStart(taskID) ==
    /\ taskID \in DOMAIN procs
    /\ procs[taskID].pc = "spawned"
    /\ Finish(taskID, "switch", ProcessingStatusProcessing, "", NilMetadata, "")
    /\ UNCHANGED <<queue, consumer, statusStore, ocrStore, jobs,
                   calls, extracted, chunkText, chunkOut,
                   upserts, kafkaWriter, textExtractedKafkaWriter, lastReply>>

(* callAIService, the switch: every type but OCR fails at once. *)
CallAIServiceOther(taskID) ==
    /\ taskID \in DOMAIN procs
    /\ procs[taskID].pc = "switch"
    /\ tasks[taskID].type # ProcessingTypeOCR
    /\ Finish(taskID, "done", ProcessingStatusFailed, "", NilMetadata,
              IF tasks[taskID].type = ProcessingTypeASR
              THEN "ASR handled by asr-service"
              ELSE "unsupported processing type")
    /\ UNCHANGED <<queue, consumer, statusStore, ocrStore, jobs,
                   calls, extracted, chunkText, chunkOut,
                   upserts, kafkaWriter, textExtractedKafkaWriter, lastReply>>

(* handleOCR, steps 1 to 3: GetFileURL, grpc.Dial, ocr.ProcessOCR with the *)
(* file URL.  A failed call may or may not have reached the worker.        *)
HandleOCRSubmit(taskID) ==
    /\ taskID \in DOMAIN procs
    /\ procs[taskID].pc = "switch"
    /\ tasks[taskID].type = ProcessingTypeOCR
    /\ \/ /\ \E reason \in {"presign: err", "dial ocr: err", "process ocr: err"} :
                Finish(taskID, "done", ProcessingStatusFailed, "", NilMetadata, reason)
          /\ UNCHANGED <<statusStore, jobs>>
       \/ /\ Finish(taskID, "done", ProcessingStatusFailed, "", NilMetadata,
                    "process ocr: err")
          /\ statusStore' = ProcessOCR(taskID, TRUE).statusStore
          /\ jobs' = ProcessOCR(taskID, TRUE).jobs
       \/ /\ statusStore' = ProcessOCR(taskID, TRUE).statusStore
          /\ jobs' = ProcessOCR(taskID, TRUE).jobs
          /\ procs' = [procs EXCEPT ![taskID].pc = "poll"]
          /\ UNCHANGED tasks
    /\ UNCHANGED <<queue, consumer, ocrStore,
                   calls, extracted, chunkText, chunkOut,
                   upserts, kafkaWriter, textExtractedKafkaWriter, lastReply>>

(* handleOCR, one iteration of the poll loop before the deadline:          *)
(* GetTaskStatus; on an error or an unfinished task, time.Sleep and the    *)
(* next iteration; on COMPLETED the second ProcessOCR that fetches the     *)
(* result, and an empty final text fails the task after the loop.          *)
PollStatus(taskID) ==
    /\ taskID \in DOMAIN procs
    /\ procs[taskID].pc = "poll"
    /\ procs[taskID].elapsed < DeadlineSeconds
    /\ \/ /\ \E e \in AfterSleep(procs[taskID].elapsed) :
                procs' = [procs EXCEPT ![taskID].elapsed = e]
          /\ UNCHANGED <<tasks, statusStore>>
       \/ /\ statusStore' = getTask(statusStore, taskID)
          /\ LET status == getTask(statusStore, taskID)[taskID]
                 text == ProcessOCR(taskID, FALSE).Text
             IN  CASE status.Status = "COMPLETED" ->
                        \/ Finish(taskID, "done", ProcessingStatusFailed, "",
                                  NilMetadata, "fetch ocr result: err")
                        \/ IF text = ""
                           THEN Finish(taskID, "done", ProcessingStatusFailed, "",
                                       NilMetadata, "ocr timeout or empty")
                           ELSE /\ procs' = [procs EXCEPT ![taskID].pc = "ingest",
                                                          ![taskID].finalText = text]
                                /\ UNCHANGED tasks
                   [] status.Status = "FAILED" ->
                        Finish(taskID, "done", ProcessingStatusFailed, "",
                               NilMetadata, status.ErrorMessage)
                   [] OTHER ->
                        /\ \E e \in AfterSleep(procs[taskID].elapsed) :
                              procs' = [procs EXCEPT ![taskID].elapsed = e]
                        /\ UNCHANGED tasks
    /\ UNCHANGED <<queue, consumer, ocrStore, jobs,
                   calls, extracted, chunkText, chunkOut,
                   upserts, kafkaWriter, textExtractedKafkaWriter, lastReply>>

(* handleOCR, the loop condition fails: finalText is still empty. *)
PollExpire(taskID) ==
    /\ taskID \in DOMAIN procs
    /\ procs[taskID].pc = "poll"
    /\ procs[taskID].elapsed >= DeadlineSeconds
    /\ Finish(taskID, "timedout", ProcessingStatusFailed, "", NilMetadata,
              "ocr timeout or empty")
    /\ UNCHANGED <<queue, consumer, statusStore, ocrStore, jobs,
                   calls, extracted, chunkText, chunkOut,
                   upserts, kafkaWriter, textExtractedKafkaWriter, lastReply>>

(* llm.UpsertChunks was called for the task, and the update that follows  *)
(* its answer.                                                             *)
Ingested(taskID, status, content, metadata, errorMessage) ==
    /\ tasks' = UpdateProcessingResult(tasks, taskID, status, content,
                                        metadata, errorMessage)
    /\ procs' = [procs EXCEPT ![taskID].pc = "done", ![taskID].ingested = TRUE]

(* handleOCR, step 5: splitTextToChunks, grpc.Dial, llm.UpsertChunks. *)
Ingest(taskID) ==
    /\ taskID \in DOMAIN procs
    /\ procs[taskID].pc = "ingest"
    /\ IF NoChunks(procs[taskID].finalText)
       THEN Finish(taskID, "done", ProcessingStatusFailed, "", NilMetadata, "no chunks")
       ELSE \/ Finish(taskID, "done", ProcessingStatusFailed, "", NilMetadata,
                      "dial llm: err")
            \/ Ingested(taskID, ProcessingStatusFailed, "", NilMetadata,
                        "upsert chunks: err")
            \/ Ingested(taskID, ProcessingStatusCompleted, "embedded",
                        "{chunks:n}", "")
    /\ UNCHANGED <<queue, consumer, statusStore, ocrStore, jobs,
                   calls, extracted, chunkText, chunkOut,
                   upserts, kafkaWriter, textExtractedKafkaWriter, lastReply>>

----------------------------------------------------------------------------
(* ocr-service: the queue consumer (startConsumer) *)

IdleConsumer ==
    [pc |-> "fetch", task_id |-> 0, elapsed |-> 0,
     status |-> ProcessingStatusFailed, content |-> "", timedout |-> FALSE,
     err |-> FALSE, refused |-> FALSE, redelivered |-> FALSE,
     redeliveries |-> 0]

(* FetchMessage, json.Unmarshal and svc.ProcessOCR with the job's file URL; *)
(* status starts as FAILED, content as "", and the deadline is set.         *)
ConsumerFetch ==
    /\ consumer.pc = "fetch"
    /\ queue # <<>>
    /\ LET job == Head(queue)
       IN  /\ statusStore' = ProcessOCR(job.task_id, TRUE).statusStore
           /\ jobs' = ProcessOCR(job.task_id, TRUE).jobs
           /\ consumer' = [consumer EXCEPT !.pc = "poll", !.task_id = job.task_id]
    /\ UNCHANGED <<tasks, procs, queue, ocrStore,
                   calls, extracted, chunkText, chunkOut,
                   upserts, kafkaWriter, textExtractedKafkaWriter, lastReply>>

(* One iteration of the consumer's poll loop before the deadline: the      *)
(* in-process GetTaskStatus never fails; on COMPLETED the result is        *)
(* fetched with a second ProcessOCR and the loop ends; on an unfinished    *)
(* task, time.Sleep and the next iteration.                                *)
ConsumerPoll ==
    /\ consumer.pc = "poll"
    /\ consumer.elapsed < DeadlineSeconds
    /\ statusStore' = getTask(statusStore, consumer.task_id)
    /\ LET st == getTask(statusStore, consumer.task_id)[consumer.task_id]
       IN  CASE st.Status = "COMPLETED" ->
                  consumer' = [consumer EXCEPT
                                  !.pc = "callback",
                                  !.status = ProcessingStatusCompleted,
                                  !.content = ProcessOCR(consumer.task_id, FALSE).Text]
             [] st.Status = "FAILED" ->
                  consumer' = [consumer EXCEPT !.pc = "callback",
                                               !.status = ProcessingStatusFailed]
             [] OTHER ->
                  \E e \in AfterSleep(consumer.elapsed) :
                      consumer' = [consumer EXCEPT !.elapsed = e]
    /\ UNCHANGED <<tasks, procs, queue, ocrStore, jobs,
                   calls, extracted, chunkText, chunkOut,
                   upserts, kafkaWriter, textExtractedKafkaWriter, lastReply>>

(* The consumer's loop condition fails: status is still FAILED. *)
ConsumerExpire ==
    /\ consumer.pc = "poll"
    /\ consumer.elapsed >= DeadlineSeconds
    /\ consumer' = [consumer EXCEPT !.pc = "callback", !.timedout = TRUE]
    /\ UNCHANGED <<tasks, procs, queue, statusStore, ocrStore, jobs,
                   calls, extracted, chunkText, chunkOut,
                   upserts, kafkaWriter, textExtractedKafkaWriter, lastReply>>

(* mcli.UpdateProcessingResult with metadata {source: ocr-service} and     *)
(* ErrorMessage "": the call is served and answered, or it fails before    *)
(* or after material-service served it; err is only logged.  When the      *)
(* store update fails inside material-service, the handler answers with    *)
(* Success false and a nil error; the consumer drops the response and      *)
(* looks at err only.                                                      *)
ConsumerCallback ==
    /\ consumer.pc = "callback"
    /\ \/ /\ tasks' = UpdateProcessingResultRPC(tasks, consumer.task_id,
                            consumer.status, consumer.content,
                            "{source:ocr-service}", "").store
          /\ \/ consumer' = [consumer EXCEPT !.pc = "commit", !.err = TRUE]
             \/ consumer' = [consumer EXCEPT
                    !.pc = IF consumer.status = ProcessingStatusCompleted
                           THEN "publish" ELSE "commit"]
       \/ /\ UNCHANGED tasks
          /\ consumer' = [consumer EXCEPT !.pc = "commit", !.err = TRUE]
       \/ /\ UNCHANGED tasks
          /\ consumer' = [consumer EXCEPT
                 !.pc = IF consumer.status = ProcessingStatusCompleted
                        THEN "publish" ELSE "commit",
                 !.refused = TRUE]
    /\ UNCHANGED <<procs, queue, statusStore, ocrStore, jobs,
                   calls, extracted, chunkText, chunkOut,
                   upserts, kafkaWriter, textExtractedKafkaWriter, lastReply>>

(* After a successful callback with status COMPLETED: the text is         *)
(* published to the text.extracted topic; a failed write is only logged.   *)
ConsumerPublish ==
    /\ consumer.pc = "publish"
    /\ \/ extracted' = Append(extracted,
                            [material_id |-> Head(queue).material_id,
                             user_id |-> Head(queue).user_id,
                             text |-> consumer.content, source |-> "ocr"])
       \/ UNCHANGED extracted
    /\ consumer' = [consumer EXCEPT !.pc = "commit"]
    /\ UNCHANGED <<tasks, procs, queue, statusStore, ocrStore, jobs, calls,
                   chunkText, chunkOut,
                   upserts, kafkaWriter, textExtractedKafkaWriter, lastReply>>

(* r.CommitMessages: the message leaves the topic's uncommitted part.     *)
(* The count of the redeliveries so far is kept over the iterations.       *)
ConsumerCommit ==
    /\ consumer.pc = "commit"
    /\ queue' = Tail(queue)
    /\ consumer' = [IdleConsumer EXCEPT !.redeliveries = consumer.redeliveries]
    /\ UNCHANGED <<tasks, procs, statusStore, ocrStore, jobs,
                   calls, extracted, chunkText, chunkOut,
                   upserts, kafkaWriter, textExtractedKafkaWriter, lastReply>>

(* r.CommitMessages returns an error, which is discarded: the offset is    *)
(* not committed and the reader, resuming from the committed offset after  *)
(* a rebalance of its group, fetches the same message again.               *)
ConsumerCommitFails ==
    /\ consumer.pc = "commit"
    /\ consumer.redeliveries < MaxRedeliveries
    /\ consumer' = [IdleConsumer EXCEPT !.redelivered = TRUE,
                                        !.redeliveries = consumer.redeliveries + 1]
    /\ UNCHANGED <<tasks, procs, queue, statusStore, ocrStore, jobs,
                   calls, extracted, chunkText, chunkOut,
                   upserts, kafkaWriter, textExtractedKafkaWriter, lastReply>>

----------------------------------------------------------------------------
(* splitTextToChunks.  A text is the sequence of its lines (the parts      *)
(* between "\n"), a line a sequence of runs, a run a character repeated n  *)
(* times; a chunk is the sequence of the lines it joins with "\n", and the *)
(* empty string is the chunk of no line.                                   *)

NotCalled == [called |-> FALSE, chunks |-> <<>>]

(* The UTF-8 width of the characters of the inputs: len() counts bytes. *)
Width(ch) == IF ch = "zh" THEN 3 ELSE 1

RECURSIVE ByteLen(_)
ByteLen(line) ==
    IF line = <<>> THEN 0
    ELSE Head(line).n * Width(Head(line).ch) + ByteLen(Tail(line))

RECURSIVE TrimLeft(_)
TrimLeft(line) ==
    IF line # <<>> /\ Head(line).ch = " " THEN TrimLeft(Tail(line)) ELSE line

RECURSIVE TrimRight(_)
TrimRight(line) ==
    IF line # <<>> /\ line[Len(line)].ch = " "
    THEN TrimRight(SubSeq(line, 1, Len(line) - 1)) ELSE line

(* strings.TrimSpace of one line *)
TrimSpace(line) == TrimRight(TrimLeft(line))

(* strings.TrimSpace(text) followed by strings.Split(text, "\n"): the      *)
(* blank lines at both ends go, the first line loses its leading and the   *)
(* last line its trailing blanks; an empty text gives no line to the loop  *)
(* because the function returns before it.                                 *)
RECURSIVE TrimText(_)
TrimText(text) ==
    IF text = <<>> THEN <<>>
    ELSE IF TrimSpace(Head(text)) = <<>> THEN TrimText(Tail(text))
    ELSE IF TrimSpace(text[Len(text)]) = <<>>
    THEN TrimText(SubSeq(text, 1, Len(text) - 1))
    ELSE IF Len(text) = 1 THEN <<TrimSpace(text[1])>>
    ELSE <<TrimLeft(text[1])>> \o SubSeq(text, 2, Len(text) - 1)
           \o <<TrimRight(text[Len(text)])>>

(* cur.Len(): the bytes of the lines in the builder and of the "\n"        *)
(* between them.                                                           *)
RECURSIVE CurLen(_)
CurLen(cur) ==
    IF cur = <<>> THEN 0
    ELSE ByteLen(Head(cur)) + (IF Len(cur) > 1 THEN 1 ELSE 0) + CurLen(Tail(cur))

(* A variant of the loop whose flush test leaves out the "\n" that joins   *)
(* the line to the builder.                                                *)
RECURSIVE SplitLoopNoSeparator(_, _, _, _)
SplitLoopNoSeparator(lines, i, out, cur) ==
    IF i > Len(lines)
    THEN IF CurLen(cur) > 0 THEN Append(out, cur) ELSE out
    ELSE LET line == TrimSpace(lines[i])
             flush == CurLen(cur) + ByteLen(line) > MaxLen
             out1 == IF flush THEN Append(out, cur) ELSE out
             cur1 == IF flush THEN <<>> ELSE cur
         IN  IF line = <<>>
             THEN SplitLoopNoSeparator(lines, i + 1, out, cur)
             ELSE SplitLoopNoSeparator(lines, i + 1, out1, Append(cur1, line))

(* The loop over the lines, from line i on, with the chunks and the        *)
(* builder so far, and the append after the loop.                          *)
RECURSIVE SplitLoop(_, _, _, _)
SplitLoop(lines, i, out, cur) ==
    IF i > Len(lines)
    THEN IF CurLen(cur) > 0 THEN Append(out, cur) ELSE out
    ELSE LET line == TrimSpace(lines[i])
             flush == CurLen(cur) + ByteLen(line) + 1 > MaxLen
             out1 == IF flush THEN Append(out, cur) ELSE out
             cur1 == IF flush THEN <<>> ELSE cur
         IN  IF line = <<>>
             THEN SplitLoop(lines, i + 1, out, cur)
             ELSE SplitLoop(lines, i + 1, out1, Append(cur1, line))

splitTextToChunks(text) ==
    LET trimmed == TrimText(text)
    IN  IF trimmed = <<>> THEN <<>> ELSE SplitLoop(trimmed, 1, <<>>, <<>>)

(* The lines the inputs are made of: empty, blank, ASCII lines around the  *)
(* bound, a padded line, a line of three-byte characters.                  *)
Run(ch, n) == [ch |-> ch, n |-> n]

ChunkLines ==
    {<<>>, <<Run(" ", 3)>>,
     <<Run("a", 100)>>, <<Run("a", 250)>>, <<Run("a", 499)>>,
     <<Run("a", 500)>>, <<Run("a", 1200)>>,
     <<Run(" ", 2), Run("a", 100), Run(" ", 2)>>,
     <<Run("zh", 100)>>}

ChunkTexts == UNION {[1..n -> ChunkLines] : n \in 0..MaxLines}

SplitTextToChunksCall ==
    /\ ~chunkOut.called
    /\ chunkOut' = [called |-> TRUE, chunks |-> splitTextToChunks(chunkText)]
    /\ UNCHANGED <<tasks, procs, queue, consumer, statusStore, ocrStore, jobs,
                   calls, extracted, chunkText,
                   upserts, kafkaWriter, textExtractedKafkaWriter, lastReply>>

(* A variant of the request that numbers the chunks from one. *)
UpsertChunksRequestFromOne(materialID, chunks) ==
    [UserId |-> Materials[materialID].UserID, MaterialId |-> materialID,
     Chunks |-> [i \in 1..Len(chunks) |->
                   [Content |-> chunks[i], Page |-> i,
                    Metadata |-> [source |-> Materials[materialID].FileType]]]]

(* handleOCR, the request of step 5: user and material id, and for every   *)
(* chunk in the order of the slice an item with its content, Page set to   *)
(* its index in the slice, and the file type as metadata.                  *)
UpsertChunksRequest(materialID, chunks) ==
    [UserId |-> Materials[materialID].UserID, MaterialId |-> materialID,
     Chunks |-> [i \in 1..Len(chunks) |->
                   [Content |-> chunks[i], Page |-> i - 1,
                    Metadata |-> [source |-> Materials[materialID].FileType]]]]

(* handleOCR, step 5, for material m1 and the chunks of the text: no call  *)
(* without chunks, else one llm.UpsertChunks call with the request.        *)
HandleOCRUpsert ==
    /\ chunkOut.called
    /\ Len(chunkOut.chunks) # 0
    /\ upserts = <<>>
    /\ upserts' = Append(upserts, UpsertChunksRequest("m1", chunkOut.chunks))
    /\ UNCHANGED <<tasks, procs, queue, consumer, statusStore, ocrStore, jobs,
                   calls, extracted, chunkText, chunkOut,
                   kafkaWriter, textExtractedKafkaWriter, lastReply>>

----------------------------------------------------------------------------
(* Any client of the UpdateProcessingResult RPC *)

(* Request values a client may send: a task id that is empty (0), known or *)
(* unknown, any status of the enum or one outside it, a content, an error  *)
(* message.  The request metadata map is empty.                            *)
RequestTaskIDs == 0..MaxTasks

RequestStatuses == ProcessingStatuses \cup {""}

RequestContents == {"", "client text"}

RequestErrors == {"", "client error"}

UpdateProcessingResultCall(taskID, status, content, errorMessage) ==
    /\ tasks' = UpdateProcessingResultRPC(tasks, taskID, status, content,
                                          "{}", errorMessage).store
    /\ UNCHANGED <<procs, queue, consumer, statusStore, ocrStore, jobs,
                   calls, extracted, chunkText, chunkOut,
                   upserts, kafkaWriter, textExtractedKafkaWriter, lastReply>>

----------------------------------------------------------------------------
InitServices ==
    /\ tasks = <<>>
    /\ procs = <<>>
    /\ queue = <<>>
    /\ consumer = IdleConsumer
    /\ statusStore = [t \in WorkerTaskIDs |-> NoTask]
    /\ ocrStore = [t \in WorkerTaskIDs |-> NoResult]
    /\ jobs = [t \in WorkerTaskIDs |-> NoJobs]
    /\ calls = [c \in Callers |-> IdleCall]
    /\ extracted = <<>>
    /\ upserts = <<>>
    /\ kafkaWriter \in BOOLEAN
    /\ textExtractedKafkaWriter \in BOOLEAN
    /\ lastReply = NoReply

Init ==
    /\ InitServices
    /\ chunkText = <<>>
    /\ chunkOut = NotCalled

(* splitTextToChunks called on a text. *)
InitChunks ==
    /\ InitServices
    /\ chunkText \in ChunkTexts
    /\ chunkOut = NotCalled

NextChunks == SplitTextToChunksCall \/ HandleOCRUpsert

SpecChunks == InitChunks /\ [][NextChunks]_vars

Next ==
    \/ \E m \in MaterialIDs, u \in UserIDs, ty \in ProcessTypes :
          ProcessMaterialCall(m, u, ty)
    \/ \E t \in TaskIDs :
          \/ Dispatch(t)
          \/ MarkDispatched(t)
          \/ CallAIServiceStart(t)
          \/ CallAIServiceOther(t)
          \/ HandleOCRSubmit(t)
          \/ PollStatus(t)
          \/ PollExpire(t)
          \/ Ingest(t)
          \/ RunOCRTask(t)
          \/ RunOCRStore(t)
    \/ ConsumerFetch
    \/ ConsumerPoll
    \/ ConsumerExpire
    \/ ConsumerCallback
    \/ ConsumerPublish
    \/ ConsumerCommit

(* The deployed system: material-service, the ocr-service worker and its   *)
(* consumer; clients call ProcessMaterial only.                            *)
Spec == Init /\ [][Next]_vars

(* Fair scheduling: the handler of every task, every goroutine, the worker *)
(* jobs and the consumer loop each keep taking their next step.            *)
Fairness ==
    /\ \A t \in TaskIDs :
          /\ WF_vars(Dispatch(t))
          /\ WF_vars(MarkDispatched(t))
          /\ WF_vars(CallAIServiceStart(t))
          /\ WF_vars(CallAIServiceOther(t))
          /\ WF_vars(HandleOCRSubmit(t))
          /\ WF_vars(PollStatus(t))
          /\ WF_vars(PollExpire(t))
          /\ WF_vars(Ingest(t))
          /\ WF_vars(RunOCRTask(t))
          /\ WF_vars(RunOCRStore(t))
    /\ WF_vars(ConsumerFetch)
    /\ WF_vars(ConsumerPoll)
    /\ WF_vars(ConsumerExpire)
    /\ WF_vars(ConsumerCallback)
    /\ WF_vars(ConsumerPublish)
    /\ WF_vars(ConsumerCommit)

FairSpec == Spec /\ Fairness

(* material-service against arbitrary clients of its two RPCs; the worker  *)
(* side is whoever calls UpdateProcessingResult.                           *)
NextOpen ==
    \/ \E m \in MaterialIDs, u \in UserIDs, ty \in ProcessTypes :
          ProcessMaterialCall(m, u, ty)
    \/ \E t \in TaskIDs :
          \/ Dispatch(t)
          \/ MarkDispatched(t)
    \/ \E t \in RequestTaskIDs, st \in RequestStatuses,
          c \in RequestContents, e \in RequestErrors :
          UpdateProcessingResultCall(t, st, c, e)

SpecOpen == Init /\ [][NextOpen]_vars

(* The queue route on a broker whose commits may fail, so that a job       *)
(* message is delivered to the consumer again.                             *)
NextRedelivery ==
    \/ \E m \in MaterialIDs, u \in UserIDs, ty \in ProcessTypes :
          ProcessMaterialCall(m, u, ty)
    \/ \E t \in TaskIDs :
          \/ Dispatch(t)
          \/ MarkDispatched(t)
          \/ RunOCRTask(t)
          \/ RunOCRStore(t)
    \/ ConsumerFetch
    \/ ConsumerPoll
    \/ ConsumerExpire
    \/ ConsumerCallback
    \/ ConsumerPublish
    \/ ConsumerCommit
    \/ ConsumerCommitFails

SpecRedelivery == Init /\ [][NextRedelivery]_vars

(* Uploads: the OCR requests UploadFile publishes and the consumer and    *)
(* the worker that process them.                                           *)
NextUpload ==
    \/ \E u \in UserIDs, ft \in OcrFileTypes : UploadFile(u, ft)
    \/ \E t \in WorkerTaskIDs :
          \/ RunOCRTask(t)
          \/ RunOCRStore(t)
    \/ ConsumerFetch
    \/ ConsumerPoll
    \/ ConsumerExpire
    \/ ConsumerCallback
    \/ ConsumerPublish
    \/ ConsumerCommit

SpecUpload == Init /\ [][NextUpload]_vars

(* The ocr-service worker against arbitrary clients of its gRPC interface. *)
NextWorker ==
    \/ \E c \in Callers, t \in TaskIDs, url \in BOOLEAN : ProcessOCRCheck(c, t, url)
    \/ \E c \in Callers : ProcessOCRStart(c)
    \/ \E t \in TaskIDs :
          \/ GetTaskStatus(t)
          \/ RunOCRTask(t)
          \/ RunOCRStore(t)

SpecWorker == Init /\ [][NextWorker]_vars

----------------------------------------------------------------------------
(* Properties *)

Terminal(status) ==
    status \in {ProcessingStatusCompleted, ProcessingStatusFailed}

(* The tasks of a (material, type) pair that are pending or processing. *)
ActiveTasks(store, materialID, processType) ==
    {t \in DOMAIN store : /\ store[t].material_id = materialID
                          /\ store[t].type = processType
                          /\ ~Terminal(store[t].status)}

(* C1: a (material, type) pair never has more than one pending or          *)
(* processing task, and a ProcessMaterial call by the owner that finds     *)
(* such a task creates no row, publishes nothing and returns that task.    *)
SingleActiveTaskPerPair ==
    [][\A m \in DOMAIN Materials, ty \in ProcessTypes :
          /\ Cardinality(ActiveTasks(tasks', m, ty)) <= 1
          /\ (/\ ActiveTasks(tasks, m, ty) # {}
              /\ ProcessMaterialCall(m, Materials[m].UserID, ty))
             => /\ UNCHANGED <<tasks, procs, queue>>
                /\ lastReply'.TaskId \in ActiveTasks(tasks, m, ty)]_vars

(* C2: a completed task keeps its status and its content in every later    *)
(* step, whoever issues the update.                                        *)
CompletedIsImmutable ==
    [][\A t \in DOMAIN tasks :
          tasks[t].status = ProcessingStatusCompleted
          => /\ tasks'[t].status = ProcessingStatusCompleted
             /\ tasks'[t].content = tasks[t].content]_vars

(* The status changes of the task state machine. *)
LegalTransitions ==
    {<<ProcessingStatusPending, ProcessingStatusProcessing>>,
     <<ProcessingStatusPending, ProcessingStatusFailed>>,
     <<ProcessingStatusProcessing, ProcessingStatusCompleted>>,
     <<ProcessingStatusProcessing, ProcessingStatusFailed>>,
     <<ProcessingStatusFailed, ProcessingStatusProcessing>>}

(* C3: every step that changes the status of a task changes it along one   *)
(* of the five legal transitions.                                          *)
OnlyLegalTransitions ==
    [][\A t \in DOMAIN tasks :
          tasks'[t].status # tasks[t].status
          => <<tasks[t].status, tasks'[t].status>> \in LegalTransitions]_vars

(* C4: every failed task carries a non-empty error reason. *)
FailedHasReason ==
    \A t \in DOMAIN tasks :
        tasks[t].status = ProcessingStatusFailed => tasks[t].error_message # ""

(* C5: applying a terminal update to the store a second time with the     *)
(* same arguments succeeds as the first call did and leaves status,        *)
(* content, metadata and error of every task as the first call left them;  *)
(* for every store the program reaches and every terminal request.         *)
TerminalUpdateIdempotent ==
    \A t \in RequestTaskIDs, c \in RequestContents, e \in RequestErrors :
        \A st \in {ProcessingStatusCompleted, ProcessingStatusFailed} :
            LET once == UpdateProcessingResultRPC(tasks, t, st, c, "{}", e)
                twice == UpdateProcessingResultRPC(once.store, t, st, c, "{}", e)
            IN  /\ twice.Success = once.Success
                /\ once.Success = (t # 0)
                /\ twice.store = once.store

(* A client's terminal update of a task is in place and applying it again  *)
(* changes nothing.                                                        *)
TerminalUpdateApplied ==
    \E t \in DOMAIN tasks, c \in {"client text"}, e \in {"client error"} :
        /\ tasks[t].status = ProcessingStatusFailed
        /\ tasks[t].metadata = "{}"
        /\ tasks[t].content = c
        /\ tasks[t].error_message = e
        /\ UpdateProcessingResultRPC(tasks, t, ProcessingStatusFailed, c, "{}", e).store
              = tasks

(* GetProcessingResult: the latest row of the pair. *)
GetProcessingResult(store, materialID, processType) ==
    GetByMaterialIDAndType(store, materialID, processType)

(* MaterialRPCServer.GetProcessingResult for a valid material id and a     *)
(* supported type: not found when the service returns an error, else the   *)
(* row it returned.                                                        *)
GetProcessingResultRPC(store, materialID, processType) ==
    LET t == GetProcessingResult(store, materialID, processType)
    IN  IF t = 0
        THEN [Found |-> FALSE, Message |-> "processing result not found",
              TaskId |-> 0, Result |-> NewRow(materialID, processType)]
        ELSE [Found |-> TRUE, Message |-> "success",
              TaskId |-> t, Result |-> store[t]]

(* C6: when the consumer's callback completes a task that was dispatched   *)
(* through the queue with content c, GetProcessingResult for the pair      *)
(* returns that task, completed with content c, and a further              *)
(* ProcessMaterial returns that same task.                                 *)
CallbackRoundTrip ==
    [][(/\ consumer.pc = "callback"
        /\ consumer'.pc = "commit"
        /\ consumer.status = ProcessingStatusCompleted
        /\ tasks' = UpdateProcessingResultRPC(tasks, consumer.task_id,
                        consumer.status, consumer.content,
                        "{source:ocr-service}", "").store)
       => LET t == consumer.task_id
              m == tasks[t].material_id
              ty == tasks[t].type
              d == ProcessMaterialDecision(tasks', m, Materials[m].UserID, ty)
          IN  /\ GetProcessingResult(tasks', m, ty) = t
              /\ tasks'[t].status = ProcessingStatusCompleted
              /\ tasks'[t].content = consumer.content
              /\ d.kind = "existing"
              /\ d.task_id = t]_vars

(* C7: a ProcessMaterial call by a user who does not own the material is   *)
(* answered with the permission-denied error; it creates no row, starts    *)
(* no handler and publishes or submits nothing.                            *)
NonOwnerIsRejected ==
    [][\A m \in DOMAIN Materials, u \in UserIDs, ty \in ProcessTypes :
          (u # Materials[m].UserID /\ ProcessMaterialCall(m, u, ty))
          => /\ ~lastReply'.Success
             /\ lastReply'.Message = "permission denied: material does not belong to user"
             /\ UNCHANGED <<tasks, procs, queue, statusStore, ocrStore, jobs>>]_vars

(* A non-owner's call was rejected while the store held a task. *)
NonOwnerWasRejected ==
    /\ tasks # <<>>
    /\ ~lastReply.Success
    /\ lastReply.Message = "permission denied: material does not belong to user"

(* C8: whenever some task of a pair is completed, ProcessMaterial for the  *)
(* pair returns a completed task and creates nothing, whatever other tasks *)
(* of the pair exist.                                                      *)
CompletedTaskIsReused ==
    \A m \in DOMAIN Materials, ty \in ProcessTypes :
        (\E t \in DOMAIN tasks : /\ tasks[t].material_id = m
                                 /\ tasks[t].type = ty
                                 /\ tasks[t].status = ProcessingStatusCompleted)
        => LET d == ProcessMaterialDecision(tasks, m, Materials[m].UserID, ty)
           IN  /\ d.kind = "existing"
               /\ tasks[d.task_id].status = ProcessingStatusCompleted

(* C9: when the presign or the publish of the queue route fails, the task  *)
(* goes from pending to failed in that step with the cause recorded, no    *)
(* message for it is on the topic, and the value returned to the caller is *)
(* the failed task with that cause.                                        *)
DispatchFailureIsReported ==
    [][\A t \in DOMAIN procs :
          (procs[t].pc = "dispatch" /\ procs'[t].pc = "failed")
          => /\ tasks[t].status = ProcessingStatusPending
             /\ tasks'[t].status = ProcessingStatusFailed
             /\ tasks'[t].error_message # ""
             /\ \A i \in DOMAIN queue' : queue'[i].task_id # t
             /\ lastReply'.TaskId = t
             /\ lastReply'.Status = ProcessingStatusFailed
             /\ lastReply'.ErrorMessage = tasks'[t].error_message]_vars

(* The error reasons of the program that contain the word timeout. *)
TimeoutReasons == {"ocr timeout or empty"}

(* C10: a poll loop that gives up does so at the deadline or at most one   *)
(* poll interval after it, and the task it fails carries a reason that     *)
(* contains "timeout"; for the direct loop and for the consumer's loop.    *)
TimeoutBoundary ==
    /\ \A t \in DOMAIN procs :
          procs[t].pc = "timedout"
          => /\ procs[t].elapsed >= DeadlineSeconds
             /\ procs[t].elapsed <= DeadlineSeconds + PollIntervalSeconds
             /\ tasks[t].status = ProcessingStatusFailed
             /\ tasks[t].error_message \in TimeoutReasons
    /\ consumer.timedout
          => /\ consumer.elapsed >= DeadlineSeconds
             /\ consumer.elapsed <= DeadlineSeconds + PollIntervalSeconds
             /\ (/\ consumer.pc = "commit"
                 /\ tasks[consumer.task_id].status = ProcessingStatusFailed)
                => tasks[consumer.task_id].error_message \in TimeoutReasons

(* C11: a ProcessOCR submission never starts a runOCRTask job for a task   *)
(* whose worker-side status is PROCESSING, whether the submissions come    *)
(* one after the other or overlap: a task that is queued or processing     *)
(* gets one job in total.                                                  *)
SubmitStartsOneJob ==
    [][\A t \in TaskIDs :
          jobs'[t].running > jobs[t].running
          => statusStore[t].Status # "PROCESSING"]_vars

(* C12: the consumer commits the offset of a job message only when the    *)
(* callback that reports the job to the task store has succeeded; a job    *)
(* whose callback failed stays uncommitted.                                *)
CommitAfterCallback ==
    [][(consumer.pc = "commit" /\ queue' = Tail(queue)) => ~consumer.err]_vars

(* A task for which the batch ingestion call was made, or whose text the  *)
(* consumer handed to the text.extracted topic.                            *)
HandoffAttempted(t) ==
    \/ procs[t].ingested
    \/ \E i \in DOMAIN extracted :
          /\ extracted[i].material_id = tasks[t].material_id
          /\ extracted[i].text = tasks[t].content

(* C13: a task is completed with a non-empty content only after the        *)
(* handoff of its text to ingestion has been attempted, on the poll-driven *)
(* route and on the callback route.                                        *)
CompletedAfterHandoff ==
    \A t \in DOMAIN tasks :
        (tasks[t].status = ProcessingStatusCompleted /\ tasks[t].content # "")
        => HandoffAttempted(t)

(* C14: when the worker returned a text with chunks and the handoff to    *)
(* the ingest worker fails (the connection or the batch call), the task    *)
(* ends completed, with the ingestion failure flagged, not failed.         *)
IngestionFailureKeepsExtraction ==
    [][\A t \in DOMAIN procs :
          (/\ procs[t].pc = "ingest"
           /\ ~NoChunks(procs[t].finalText)
           /\ procs'[t].pc = "done")
          => tasks'[t].status = ProcessingStatusCompleted]_vars

(* The number of characters of a line, and of lines joined by "\n". *)
RECURSIVE NChars(_)
NChars(line) ==
    IF line = <<>> THEN 0 ELSE Head(line).n + NChars(Tail(line))

RECURSIVE JoinedChars(_)
JoinedChars(lines) ==
    IF lines = <<>> THEN 0
    ELSE NChars(Head(lines)) + (IF Len(lines) > 1 THEN 1 ELSE 0)
           + JoinedChars(Tail(lines))

IsNonEmptyLine(line) == line # <<>>

(* The non-empty lines of a text, trimmed, in order. *)
NonEmptyLines(text) ==
    SelectSeq([i \in 1..Len(text) |-> TrimSpace(text[i])], IsNonEmptyLine)

(* C15: for a text that is one line of more than 500 characters,           *)
(* splitTextToChunks returns exactly one chunk, the whole line.            *)
OversizedLineIsOneChunk ==
    (/\ chunkOut.called
     /\ Len(chunkText) = 1
     /\ NChars(TrimSpace(chunkText[1])) > MaxLen)
    => chunkOut.chunks = << <<TrimSpace(chunkText[1])>> >>

(* C16: when the non-empty lines of the text joined by single newlines     *)
(* are at most 500 characters, splitTextToChunks returns exactly one       *)
(* chunk, all those lines in order.                                        *)
LinesAggregateIntoOneChunk ==
    (/\ chunkOut.called
     /\ NonEmptyLines(chunkText) # <<>>
     /\ JoinedChars(NonEmptyLines(chunkText)) <= MaxLen)
    => chunkOut.chunks = <<NonEmptyLines(chunkText)>>

(* C17: an UpdateProcessingResult request whose task id matches no row is *)
(* answered with a failure and changes no row; the answer is ok only when  *)
(* a row with that task id exists.                                         *)
UnknownTaskIsNotFound ==
    \A t \in RequestTaskIDs, st \in ProcessingStatuses,
       c \in RequestContents, e \in RequestErrors :
        LET r == UpdateProcessingResultRPC(tasks, t, st, c, "{}", e)
        IN  /\ t \notin DOMAIN tasks => (~r.Success /\ r.store = tasks)
            /\ r.Success => t \in DOMAIN tasks

(* C18: under fair scheduling every task that is processing eventually   *)
(* becomes completed or failed, also when outbound calls fail.             *)
ProcessingEventuallyTerminal ==
    \A t \in TaskIDs :
        (t \in DOMAIN tasks /\ tasks[t].status = ProcessingStatusProcessing)
        ~> (t \in DOMAIN tasks /\ Terminal(tasks[t].status))

(* C19: on the queue route the terminal update of the worker's callback   *)
(* is never lost: once the callback has written status and content of a    *)
(* task, no step of the dispatcher changes them.                           *)
CallbackUpdateIsFinal ==
    [][\A t \in DOMAIN tasks :
          (/\ tasks[t].metadata = "{source:ocr-service}"
           /\ Terminal(tasks[t].status))
          => /\ tasks'[t].status = tasks[t].status
             /\ tasks'[t].content = tasks[t].content]_vars

(* A row the dispatcher marked: processing with metadata dispatched. *)
IsDispatched(row) ==
    /\ row.status = ProcessingStatusProcessing
    /\ row.metadata = "{dispatched:true}"

(* C20: a task becomes processing with metadata dispatched only in the     *)
(* step of its handler that follows the publish, and the handler gets to   *)
(* that step only by appending to the topic the job message that carries   *)
(* the task id, the material id, the owner and the presigned URL.          *)
DispatchedOnlyAfterPublish ==
    [][\A t \in DOMAIN tasks :
          /\ (IsDispatched(tasks'[t]) /\ ~IsDispatched(tasks[t]))
             => procs[t].pc = "mark"
          /\ (procs'[t].pc = "mark" /\ procs[t].pc # "mark")
             => queue' = Append(queue,
                    [task_id |-> t, material_id |-> tasks[t].material_id,
                     user_id |-> Materials[tasks[t].material_id].UserID,
                     file_url |-> "presigned url",
                     file_type |-> Materials[tasks[t].material_id].FileType])]_vars

(* A task is marked dispatched and its job message is on the topic. *)
DispatchedWithJobOnTopic ==
    \E t \in DOMAIN tasks :
        /\ IsDispatched(tasks[t])
        /\ \E i \in DOMAIN queue : queue[i].task_id = t

(* C21: when the consumer processes a job message that was delivered to   *)
(* it before, the submission starts no further runOCRTask job for the task *)
(* id, whatever worker-side status the first processing left.              *)
RedeliveryStartsNoJob ==
    [][(/\ consumer.pc = "fetch"
        /\ consumer.redelivered
        /\ consumer'.pc = "poll")
       => jobs'[consumer'.task_id] = jobs[consumer'.task_id]]_vars

(* C22: whenever the worker-side status of a task is COMPLETED, the        *)
(* recognized text is cached and a ProcessOCR call without file URL        *)
(* returns it: no poller sees COMPLETED while the result is missing.       *)
CompletedStatusHasResult ==
    \A t \in TaskIDs :
        statusStore[t].Status = "COMPLETED"
        => /\ ocrStore[t].present
           /\ ProcessOCR(t, FALSE).Text = ocrStore[t].Text

(* C23: in a poll loop before its deadline, an iteration that stays in the *)
(* loop (a failed status call, or an unfinished task) only lets time pass  *)
(* and leaves the task as it is, and an iteration entered while the worker *)
(* reports COMPLETED does not fail the task: handleOCR goes on with the    *)
(* text, the consumer reports the task completed.                          *)
PollErrorsAreTolerated ==
    [][/\ \A t \in DOMAIN procs :
             (/\ procs[t].pc = "poll"
              /\ procs[t].elapsed < DeadlineSeconds
              /\ procs'[t] # procs[t])
             => /\ procs'[t].pc = "poll"
                   => /\ tasks'[t] = tasks[t]
                      /\ procs'[t].elapsed > procs[t].elapsed
                /\ (procs'[t].pc # "poll" /\ statusStore[t].Status = "COMPLETED")
                   => tasks'[t].status # ProcessingStatusFailed
       /\ (/\ consumer.pc = "poll"
           /\ consumer.elapsed < DeadlineSeconds
           /\ consumer'.pc # "poll"
           /\ statusStore[consumer.task_id].Status = "COMPLETED")
          => consumer'.status = ProcessingStatusCompleted]_vars

(* C24: when handleOCR has completed a task, the content of the task is    *)
(* the text the worker returned for it.                                    *)
PollContentIsWorkerText ==
    \A t \in DOMAIN procs :
        (/\ procs[t].pc = "done"
         /\ procs[t].ingested
         /\ tasks[t].status = ProcessingStatusCompleted)
        => tasks[t].content = procs[t].finalText

(* C25: every job message on the worker queue carries the task id of a    *)
(* row of the task store, and so does every callback the consumer is about *)
(* to send, for the messages of ProcessMaterial and for those of upload.   *)
JobTaskExists ==
    /\ \A i \in DOMAIN queue : queue[i].task_id \in DOMAIN tasks
    /\ consumer.pc = "callback" => consumer.task_id \in DOMAIN tasks

(* The positions of a ProcessMaterial handler inside the queue branch, and *)
(* those of the callAIService goroutine of the fallback.                   *)
QueueRoutePCs == {"dispatch", "mark", "failed", "panic", "returned"}

DirectRoutePCs == {"spawned", "switch", "poll", "ingest", "done", "timedout"}

(* C26: each task is handled by one route.  A handler that entered the     *)
(* queue branch never starts callAIService and a callAIService goroutine   *)
(* never publishes; job messages and the consumer's callback concern queue *)
(* route tasks only; and a step that changes a task is a step of the       *)
(* task's own route: its handler or goroutine, or for a queue route task   *)
(* the consumer's callback for it.                                         *)
SingleRoutePerTask ==
    [][\A t \in DOMAIN tasks :
          /\ procs[t].pc \in QueueRoutePCs => procs'[t].pc \in QueueRoutePCs
          /\ procs[t].pc \in DirectRoutePCs => procs'[t].pc \in DirectRoutePCs
          /\ (\E i \in DOMAIN queue' : queue'[i].task_id = t)
             => procs'[t].pc \in QueueRoutePCs
          /\ tasks'[t] # tasks[t]
             => \/ procs'[t] # procs[t] /\ consumer' = consumer
                \/ /\ procs[t].pc \in QueueRoutePCs
                   /\ procs' = procs
                   /\ consumer.pc = "callback"
                   /\ consumer.task_id = t]_vars

(* In one run a task of the queue route was completed by the consumer's    *)
(* callback and a task of the fallback route was finished by its goroutine.*)
BothRoutesFinished ==
    \E t1 \in DOMAIN tasks, t2 \in DOMAIN tasks :
        /\ procs[t1].pc = "returned"
        /\ tasks[t1].status = ProcessingStatusCompleted
        /\ tasks[t1].metadata = "{source:ocr-service}"
        /\ procs[t2].pc = "done"
        /\ tasks[t2].status = ProcessingStatusFailed

(* C27: whenever a ProcessMaterial handler is in the queue branch, the     *)
(* writer it publishes with is configured, and no handler ends in the nil  *)
(* dereference of an absent writer.                                        *)
QueueRouteWriterConfigured ==
    \A t \in DOMAIN procs :
        /\ procs[t].pc \in QueueRoutePCs => kafkaWriter
        /\ procs[t].pc # "panic"

(* C28: when the most recent task of a (material, type) pair is failed, a  *)
(* ProcessMaterial call by the owner is not answered from the store: it    *)
(* creates a new pending task and starts its handler on one of the routes, *)
(* and neither that call nor any later step of a handler changes a task    *)
(* other than the handler's own.                                           *)
RetryFromFailed ==
    [][/\ \A m \in DOMAIN Materials, ty \in ProcessTypes :
             LET last == GetByMaterialIDAndType(tasks, m, ty)
             IN  (last # 0 /\ tasks[last].status = ProcessingStatusFailed)
                 => /\ ProcessMaterialDecision(tasks, m, Materials[m].UserID, ty)
                         = [kind |-> "create", task_id |-> Len(tasks) + 1,
                            message |-> ""]
                    /\ ProcessMaterialCall(m, Materials[m].UserID, ty)
                       => /\ tasks' = Append(tasks, NewRow(m, ty))
                          /\ Len(procs') = Len(procs) + 1
                          /\ procs'[Len(procs')].pc \in {"dispatch", "spawned"}
                          /\ \A t \in DOMAIN procs : procs'[t] = procs[t]
       /\ \A t \in DOMAIN procs :
             procs'[t] # procs[t]
             => \A u \in DOMAIN tasks \ {t} : tasks'[u] = tasks[u]]_vars

(* A pair whose first task failed with a reason has a second task that    *)
(* was dispatched: its job message is on the topic.                        *)
RetryWasDispatched ==
    \E t1 \in DOMAIN tasks, t2 \in DOMAIN tasks :
        /\ t1 < t2
        /\ tasks[t1].material_id = tasks[t2].material_id
        /\ tasks[t1].type = tasks[t2].type
        /\ tasks[t1].status = ProcessingStatusFailed
        /\ tasks[t1].error_message = "kafka publish: err"
        /\ IsDispatched(tasks[t2])
        /\ \E i \in DOMAIN queue : queue[i].task_id = t2

(* C29: the consumer publishes a text-extracted message only for a job     *)
(* whose worker task it saw COMPLETED before the deadline and whose        *)
(* callback updated the task store: never after a failed callback, whether *)
(* the call failed or material-service answered that the update failed.    *)
NotificationOnlyAfterCallback ==
    [][extracted' # extracted
       => /\ consumer.status = ProcessingStatusCompleted
          /\ ~consumer.timedout
          /\ ~consumer.err
          /\ ~consumer.refused]_vars

(* C30: the chunks of a text are handed to the ingest worker in one        *)
(* UpsertChunks call that names the material and its owner and holds every *)
(* chunk splitTextToChunks returned, in that order, the i-th of them       *)
(* (counting from zero) with index i.                                      *)
HandoffIsOneOrderedBatch ==
    upserts # <<>>
    => LET chunks == splitTextToChunks(chunkText)
           sent == upserts[1].Chunks
       IN  /\ Len(upserts) = 1
           /\ upserts[1].MaterialId = "m1"
           /\ upserts[1].UserId = Materials["m1"].UserID
           /\ Len(sent) = Len(chunks)
           /\ \A i \in 0..(Len(chunks) - 1) :
                 /\ sent[i + 1].Content = chunks[i + 1]
                 /\ sent[i + 1].Page = i

(* A text of three chunks was handed off in one call. *)
ThreeChunksHandedOff ==
    /\ Len(upserts) = 1
    /\ Len(upserts[1].Chunks) = 3
    /\ upserts[1].Chunks[3].Page = 2
    /\ upserts[1].Chunks[1].Content # upserts[1].Chunks[3].Content

(* C31: every chunk splitTextToChunks returns that holds more than one     *)
(* line is at most 500 characters (and bytes) long with its newlines, and  *)
(* every line of every chunk is a whole trimmed line of the input.         *)
ChunkBound ==
    chunkOut.called
    => \A c \in DOMAIN chunkOut.chunks :
          LET chunk == chunkOut.chunks[c]
          IN  /\ Len(chunk) > 1
                 => /\ JoinedChars(chunk) <= MaxLen
                    /\ CurLen(chunk) <= MaxLen
              /\ \A l \in DOMAIN chunk :
                    \E k \in DOMAIN chunkText :
                       /\ chunk[l] = TrimSpace(chunkText[k])
                       /\ chunk[l] # <<>>

(* A text was split into a chunk of two lines that is close to the bound   *)
(* and a further chunk.                                                    *)
TwoLineChunkNearBound ==
    /\ chunkOut.called
    /\ Len(chunkOut.chunks) = 2
    /\ Len(chunkOut.chunks[1]) = 2
    /\ JoinedChars(chunkOut.chunks[1]) > MaxLen - 200
    /\ Len(chunkOut.chunks[2]) = 1

(* C32: no chunk splitTextToChunks returns is the empty string, and it     *)
(* returns no chunk exactly when the text has no non-blank line.           *)
NoEmptyChunk ==
    chunkOut.called
    => /\ \A c \in DOMAIN chunkOut.chunks : chunkOut.chunks[c] # <<>>
       /\ (chunkOut.chunks = <<>>) <=> (NonEmptyLines(chunkText) = <<>>)

(* strings.Split(chunk, "\n"): the lines of the chunk; the empty string    *)
(* gives one piece, the empty string.                                      *)
SplitOnNewline(chunk) == IF chunk = <<>> THEN << <<>> >> ELSE chunk

(* The pieces of the chunks, in chunk order. *)
RECURSIVE Pieces(_)
Pieces(chunks) ==
    IF chunks = <<>> THEN <<>>
    ELSE SplitOnNewline(Head(chunks)) \o Pieces(Tail(chunks))

(* C33: the chunks splitTextToChunks returns, split on newlines and put    *)
(* one after the other in chunk order, are exactly the trimmed non-blank   *)
(* lines of the text in their order.                                       *)
ChunksKeepLines ==
    chunkOut.called => Pieces(chunkOut.chunks) = NonEmptyLines(chunkText)

(* C34: a completed task has an empty error reason, in every store the     *)
(* update calls of the clients produce, and in particular after a failed   *)
(* update with a reason that is followed by a completed update.            *)
CompletedHasNoError ==
    /\ \A t \in DOMAIN tasks :
          tasks[t].status = ProcessingStatusCompleted => tasks[t].error_message = ""
    /\ \A t \in DOMAIN tasks :
          LET failed == UpdateProcessingResultRPC(tasks, t, ProcessingStatusFailed,
                                                  "", "{}", "client error").store
              done == UpdateProcessingResultRPC(failed, t, ProcessingStatusCompleted,
                                                "client text", "{}", "").store
          IN  done[t].error_message = ""

(* C35: an update changes no task but the one whose id it names: in every  *)
(* store the clients' interleaved updates produce, every request leaves    *)
(* the rows of all other ids and the set of rows as they are, and updates  *)
(* of two different ids give the same store in either order.               *)
UpdateScopedByTaskID ==
    /\ \A t \in RequestTaskIDs, st \in ProcessingStatuses,
          c \in RequestContents, e \in RequestErrors :
           LET one == UpdateProcessingResultRPC(tasks, t, st, c, "{}", e).store
           IN  /\ DOMAIN one = DOMAIN tasks
               /\ \A u \in DOMAIN tasks \ {t} : one[u] = tasks[u]
    /\ \A t \in DOMAIN tasks, u \in DOMAIN tasks, st \in ProcessingStatuses :
           LET first(store) ==
                   UpdateProcessingResultRPC(store, t, st, "", "{}",
                                             "client error").store
               second(store) ==
                   UpdateProcessingResultRPC(store, u, ProcessingStatusCompleted,
                                             "client text", "{}", "").store
           IN  t # u => second(first(tasks)) = first(second(tasks))

(* A client's update completed one task while another task of the store    *)
(* is still the row its creation wrote.                                    *)
OneOfTwoTasksUpdated ==
    \E t \in DOMAIN tasks, u \in DOMAIN tasks :
        /\ t # u
        /\ tasks[t].status = ProcessingStatusCompleted
        /\ tasks[t].content = "client text"
        /\ tasks[t].metadata = "{}"
        /\ tasks[u] = NewRow(tasks[u].material_id, tasks[u].type)

(* The tasks of a (material, type) pair. *)
TasksOfPair(store, materialID, processType) ==
    {t \in DOMAIN store : /\ store[t].material_id = materialID
                          /\ store[t].type = processType}

FetchWithoutUrlIsPure ==
    [][\A t \in TaskIDs :
          LET r == ProcessOCR(t, FALSE)
          IN  /\ r.jobs = jobs
              /\ \A u \in WorkerTaskIDs :
                    statusStore[u].Status # "ABSENT"
                    => r.statusStore[u] = statusStore[u]
              /\ IF ocrStore[t].present
                 THEN /\ r.Status = "COMPLETED"
                      /\ r.Text = ocrStore[t].Text
                      /\ r.statusStore = statusStore
                 ELSE /\ r.Status = r.statusStore[t].Status
                      /\ statusStore[t].Status # "ABSENT"
                         => r.Status = statusStore[t].Status
                      /\ r.Text = ""
              /\ \A c \in Callers :
                    ProcessOCRCheck(c, t, FALSE)
                    => /\ jobs' = jobs
                       /\ calls' = calls
                       /\ ocrStore' = ocrStore
                       /\ \A u \in WorkerTaskIDs :
                             statusStore[u].Status # "ABSENT"
                             => statusStore'[u] = statusStore[u]]_vars

(* A failed task with no job left and a task with a cached text, each     *)
(* answered by a call without file URL.                                    *)
FetchAnswersEveryStatus ==
    \E t \in TaskIDs, u \in TaskIDs :
        /\ statusStore[t].Status = "FAILED"
        /\ jobs[t] = NoJobs
        /\ ProcessOCR(t, FALSE).Status = "FAILED"
        /\ ocrStore[u].present
        /\ ocrStore[u].Text = "recognized text"
        /\ ProcessOCR(u, FALSE).Text = "recognized text"

====
